---- MODULE Spec2Model ----
(***************************************************************************)
(* Model of src/dns_mapper.py: the DNSMapper lookup engine.                *)
(*                                                                         *)
(* One DNSMapper instance (domain, results) runs against a resolver        *)
(* backend `zone` that gives every query an outcome.  Every resolver query *)
(* the code issues is one step of the model.                               *)
(*                                                                         *)
(* Representation of values:                                               *)
(*   - an IPv4 address in dotted-quad text is the tuple of its octets,     *)
(*     <<198,51,100,10>> for "198.51.100.10"; a tuple that is not four     *)
(*     octets in 0..255 is text that ipaddress.IPv4Address rejects;        *)
(*   - text handled character by character (names, TXT data) is a sequence *)
(*     of one-character strings; a byte of a TXT segment is the            *)
(*     one-character string of its ASCII value, or the token "\\xff" for   *)
(*     the byte 0xFF, which no UTF-8 text contains;                        *)
(*   - the target and the candidate subdomain names are TLA+ strings;      *)
(*   - a Python dict is a function whose DOMAIN is the set of its keys.    *)
(***************************************************************************)
EXTENDS Integers, Sequences, FiniteSets, TLC

\* ------------------------------------------------------------------ bounds

\* Top-level calls (scan or a direct method call) made on the program.
MaxCalls == 2
\* Times the resolver backend may change between top-level calls.
MaxZoneChanges == 1
\* Largest radius passed to scan_ip_neighbors by a direct call.
MaxRadius == 2

\* ------------------------------------------------------- python helpers

EmptyMap == <<>>

\* d[k] = v on a dict
Put(d, k, v) == [x \in (DOMAIN d) \cup {k} |-> IF x = k THEN v ELSE d[x]]

Has(d, k) == k \in DOMAIN d

\* str.rstrip(ch): removes every trailing occurrence of ch
RECURSIVE rstrip(_, _)
rstrip(s, ch) ==
    IF Len(s) > 0 /\ s[Len(s)] = ch
    THEN rstrip(SubSeq(s, 1, Len(s) - 1), ch)
    ELSE s

\* ''.join(parts)
RECURSIVE join(_)
join(parts) == IF parts = <<>> THEN <<>> ELSE Head(parts) \o join(Tail(parts))

\* bytes.decode() (UTF-8, strict): an ASCII byte is its character; the byte
\* 0xFF raises UnicodeDecodeError.
BadByte == "\\xff"
Decodable(data) == \A i \in 1..Len(data) : data[i] # BadByte

\* s.decode() if isinstance(s, bytes) else s
SegmentDecodable(seg) == seg.bytes => Decodable(seg.data)
SegmentText(seg) == seg.data

\* ------------------------------------------------------------ ipaddress

\* A Python int that holds an address value is the pair <<hi, lo>> of its
\* 16-bit halves, hi * 2^16 + lo, with 0 <= lo < 2^16; hi is any integer.
Half == 2^16

IsDottedQuad(ip) ==
    /\ DOMAIN ip = 1..4
    /\ \A i \in 1..4 : ip[i] \in 0..255

\* int(ipaddress.IPv4Address(ip)) for valid dotted-quad text
ToInt(ip) == <<ip[1] * 2^8 + ip[2], ip[3] * 2^8 + ip[4]>>

\* n + offset
Plus(n, off) ==
    LET lo == n[2] + off IN <<n[1] + (lo \div Half), lo % Half>>

\* IPv4Address(n) accepts n: 0 <= n <= 2^32 - 1 (else AddressValueError)
InRange(n) == n[1] >= 0 /\ n[1] <= Half - 1

\* str(ipaddress.IPv4Address(n)) for n in range
ToText(n) == <<n[1] \div 2^8, n[1] % 2^8, n[2] \div 2^8, n[2] % 2^8>>

\* --------------------------------------------------- exception classes

\* What resolver.resolve raises: non-existent name, name exists but no such
\* record, timeout, any other dnspython failure.
FailureClasses == {"NXDOMAIN", "NoAnswer", "Timeout", "DNSException"}

\* The except clause shared by the lookups
CaughtClassesNarrow == {"NXDOMAIN", "NoAnswer"}
CaughtClasses == {"NXDOMAIN", "NoAnswer", "Timeout", "DNSException"}

Caught(exc) == exc \in CaughtClasses

\* ------------------------------------------------------ resolver backend

\* Outcome of one resolver.resolve call: an answer (never empty: dnspython
\* raises NoAnswer instead of returning an empty answer) or an exception.
Ok(answers) == [ok |-> TRUE, answers |-> answers, exc |-> "none"]
Fail(exc) == [ok |-> FALSE, answers |-> <<>>, exc |-> exc]

ARec(address) == [address |-> address]
MXRec(exchange) == [exchange |-> exchange]
NSRec(target) == [target |-> target]
PTRRec(target) == [target |-> target]
TXTRec(strings) == [strings |-> strings]
Bytes(data) == [bytes |-> TRUE, data |-> data]
Str(data) == [bytes |-> FALSE, data |-> data]

\* Addresses the backends know.
Mid == <<198, 51, 100, 10>>
Low == <<0, 0, 0, 1>>
High == <<255, 255, 255, 254>>
Carry == <<10, 0, 0, 255>>
Web == <<203, 0, 113, 5>>
\* Text that is no IPv4 address.
NotAnAddress == <<256, 0, 0, 1>>

\* Names as dnspython prints them: absolute, with the root label's dot.
MxName == <<"m", "x", ".", "t", ".">>
Mx2Name == <<"m", "2", ".", "t", ".">>
NsName == <<"n", "s", ".", "t", ".">>
Ns2Name == <<"n", "2", ".", "t", ".">>
HostName == <<"h", ".", "t", ".">>
Host2Name == <<"g", ".", "t", ".">>
RootName == <<".">>
\* A name whose last label ends with a dot character, which dnspython prints
\* escaped: labels (b'h.', b'') print as h\.. (the backslash is one character)
EscName == <<"h", "\\", ".", ".">>

SpfTxt == TXTRec(<<Bytes(<<"v", "=", "1", " ">>), Bytes(<<"i", ":", "x", " ">>), Bytes(<<"~", "a">>)>>)
KeyTxt == TXTRec(<<Str(<<"k", "=", "1">>)>>)
BadTxt == TXTRec(<<Bytes(<<"k", "=">>), Bytes(<<BadByte>>)>>)

Apex == "example.com"

\* The end-to-end backend of the spec: one address, one mail exchange, one
\* nameserver, one text record, no PTR record and no subdomain.
RefZone ==
    [A |-> Ok(<<ARec(Mid)>>), MX |-> Ok(<<MXRec(MxName)>>),
     NS |-> Ok(<<NSRec(NsName)>>), TXT |-> Ok(<<KeyTxt>>),
     ptr |-> EmptyMap, sub |-> EmptyMap, exc |-> "NXDOMAIN"]

Host == <<PTRRec(HostName)>>
Hosts == <<PTRRec(HostName), PTRRec(Host2Name)>>

\* PTR data around Mid: two neighbors inside radius 5, Mid itself and one
\* address just outside the radius.
PtrMid ==
    (<<198, 51, 100, 8>> :> Host) @@ (<<198, 51, 100, 15>> :> Hosts) @@
    (Mid :> Host) @@ (<<198, 51, 100, 16>> :> Host)
\* PTR data at the low end of the address space.
PtrLow ==
    (<<0, 0, 0, 0>> :> Host) @@ (<<0, 0, 0, 6>> :> Hosts) @@
    (<<0, 0, 0, 7>> :> Host) @@ (Low :> Host)
\* PTR data at the high end of the address space.
PtrHigh ==
    (<<255, 255, 255, 255>> :> Host) @@ (<<255, 255, 255, 249>> :> Host) @@
    (<<255, 255, 255, 248>> :> Host)
\* PTR data across an octet boundary, one name being the root.
PtrCarry ==
    (<<10, 0, 1, 0>> :> Host) @@ (<<10, 0, 0, 254>> :> <<PTRRec(RootName)>>)

SubWww == ("www." \o Apex) :> <<ARec(Web)>>
SubMany ==
    (("api." \o Apex) :> <<ARec(Web), ARec(Mid)>>) @@
    (("secure." \o Apex) :> <<ARec(Low)>>) @@
    (("www.other.org") :> <<ARec(Web)>>) @@
    (("ww." \o Apex) :> <<ARec(Web)>>)

RecordZones ==
    {RefZone}
    \cup {[RefZone EXCEPT !.A = Fail(c), !.MX = Fail(c), !.NS = Fail(c),
                          !.TXT = Fail(c), !.exc = c] : c \in FailureClasses}
    \cup {[RefZone EXCEPT !.A = Fail("NXDOMAIN")],
          [RefZone EXCEPT !.MX = Fail("NoAnswer")],
          [RefZone EXCEPT !.NS = Fail("Timeout")],
          [RefZone EXCEPT !.TXT = Fail("DNSException")],
          [RefZone EXCEPT !.TXT = Ok(<<BadTxt>>)],
          [RefZone EXCEPT !.MX = Ok(<<MXRec(MxName), MXRec(Mx2Name)>>),
                          !.NS = Ok(<<NSRec(Ns2Name), NSRec(NsName)>>),
                          !.TXT = Ok(<<SpfTxt, KeyTxt>>)]}

PtrZones ==
    {[RefZone EXCEPT !.ptr = PtrMid],
     [RefZone EXCEPT !.A = Ok(<<ARec(Low)>>), !.ptr = PtrLow, !.exc = "Timeout"],
     [RefZone EXCEPT !.A = Ok(<<ARec(High)>>), !.ptr = PtrHigh, !.exc = "NoAnswer"],
     [RefZone EXCEPT !.A = Ok(<<ARec(Carry)>>), !.ptr = PtrCarry, !.exc = "DNSException"],
     [RefZone EXCEPT !.A = Ok(<<ARec(Mid), ARec(Low)>>), !.ptr = PtrMid @@ PtrLow]}

SubZones ==
    {[RefZone EXCEPT !.sub = SubWww, !.ptr = PtrMid],
     [RefZone EXCEPT !.sub = SubMany, !.exc = "Timeout"],
     [RefZone EXCEPT !.A = Fail("NXDOMAIN"), !.sub = SubWww @@ SubMany,
                     !.exc = "NoAnswer"]}

\* A backend whose names hold a label that ends with a dot character.
EscZones ==
    {[RefZone EXCEPT !.MX = Ok(<<MXRec(MxName), MXRec(EscName)>>),
                     !.NS = Ok(<<NSRec(EscName)>>),
                     !.ptr = (<<198, 51, 100, 9>> :> <<PTRRec(EscName)>>),
                     !.exc = "NoAnswer"]}

\* The backends explored.
Zones == RecordZones \cup PtrZones \cup SubZones \cup EscZones

\* The backends the DNS data may change to between two calls: the reference
\* data, richer data, other addresses, and data whose lookups fail.
LaterZones ==
    {RefZone,
     [RefZone EXCEPT !.A = Fail("NXDOMAIN")],
     [RefZone EXCEPT !.A = Fail("Timeout"), !.MX = Fail("Timeout"),
                     !.NS = Fail("Timeout"), !.TXT = Fail("Timeout"),
                     !.exc = "Timeout"],
     [RefZone EXCEPT !.MX = Ok(<<MXRec(MxName), MXRec(Mx2Name)>>),
                     !.NS = Ok(<<NSRec(Ns2Name), NSRec(NsName)>>),
                     !.TXT = Ok(<<SpfTxt, KeyTxt>>)],
     [RefZone EXCEPT !.A = Ok(<<ARec(Low)>>), !.ptr = PtrLow, !.exc = "Timeout"]}

\* resolver.resolve(qname, rdtype) against backend z
resolver_resolve(z, qname, rdtype) ==
    IF qname = Apex THEN z[rdtype]
    ELSE IF rdtype = "A" /\ Has(z.sub, qname) THEN Ok(z.sub[qname])
    ELSE Fail(z.exc)

\* dns.reversename.from_address(ip), then resolver.resolve(rev_name, 'PTR'):
\* text that is no address raises dns.exception.SyntaxError, a DNSException
reverse_query(z, ip) ==
    IF ~IsDottedQuad(ip) THEN Fail("DNSException")
    ELSE IF Has(z.ptr, ip) THEN Ok(z.ptr[ip])
    ELSE Fail(z.exc)

\* ------------------------------------------------------- record lookups

\* What a lookup does: the Result Model after it, the value it returns, the
\* resolver's outcome, and whether an exception left the method.
Returned(res, val, out) ==
    [results |-> res, ret |-> val, outcome |-> IF out.ok THEN "ok" ELSE out.exc,
     raised |-> FALSE]
Raised(res, out) ==
    [results |-> res, ret |-> <<>>, outcome |-> IF out.ok THEN "ok" ELSE out.exc,
     raised |-> TRUE]

\* except (NXDOMAIN, NoAnswer, Timeout, DNSException): return []
OnFailureResets(res, out) == Returned(EmptyMap, <<>>, out)
OnFailure(res, out) ==
    IF Caught(out.exc) THEN Returned(res, <<>>, out) ELSE Raised(res, out)

\* self.results[key] = val
StoreExtend(res, key, val) ==
    IF Has(res, key) THEN Put(res, key, res[key] \o val) ELSE Put(res, key, val)
Store(res, key, val) == Put(res, key, val)

\* [str(rdata) for rdata in answers]
AddressList(answers) == [i \in 1..Len(answers) |-> answers[i].address]

resolve_a_StoresEmpty(z, dom, res) ==
    LET out == resolver_resolve(z, dom, "A") IN
    IF out.ok
    THEN LET ips == AddressList(out.answers) IN
         Returned(Store(res, "A", ips), ips, out)
    ELSE Returned(Store(res, "A", <<>>), <<>>, out)

resolve_a(z, dom, res) ==
    LET out == resolver_resolve(z, dom, "A") IN
    IF out.ok
    THEN LET ips == AddressList(out.answers) IN
         Returned(Store(res, "A", ips), ips, out)
    ELSE OnFailure(res, out)

resolve_mx_WrongKey(z, dom, res) ==
    LET out == resolver_resolve(z, dom, "MX") IN
    IF out.ok
    THEN LET mx_servers ==
                 [i \in 1..Len(out.answers) |-> rstrip(out.answers[i].exchange, ".")] IN
         Returned(Store(res, "NS", mx_servers), mx_servers, out)
    ELSE OnFailure(res, out)

resolve_mx(z, dom, res) ==
    LET out == resolver_resolve(z, dom, "MX") IN
    IF out.ok
    THEN LET mx_servers ==
                 [i \in 1..Len(out.answers) |-> rstrip(out.answers[i].exchange, ".")] IN
         Returned(Store(res, "MX", mx_servers), mx_servers, out)
    ELSE OnFailure(res, out)

resolve_ns(z, dom, res) ==
    LET out == resolver_resolve(z, dom, "NS") IN
    IF out.ok
    THEN LET nameservers ==
                 [i \in 1..Len(out.answers) |-> rstrip(out.answers[i].target, ".")] IN
         Returned(Store(res, "NS", nameservers), nameservers, out)
    ELSE OnFailure(res, out)

\* ''.join([s.decode() if isinstance(s, bytes) else s for s in rdata.strings])
TxtOfFirstSegment(rdata) == SegmentText(rdata.strings[1])
TxtOf(rdata) ==
    join([j \in 1..Len(rdata.strings) |-> SegmentText(rdata.strings[j])])
TxtDecodable(rdata) ==
    \A j \in 1..Len(rdata.strings) : SegmentDecodable(rdata.strings[j])

\* A segment that is not UTF-8 raises UnicodeDecodeError, which the except
\* clause does not name: it leaves resolve_txt before results['TXT'] is set.
resolve_txt(z, dom, res) ==
    LET out == resolver_resolve(z, dom, "TXT") IN
    IF out.ok
    THEN IF \A i \in 1..Len(out.answers) : TxtDecodable(out.answers[i])
         THEN LET txt_records == [i \in 1..Len(out.answers) |-> TxtOf(out.answers[i])] IN
              Returned(Store(res, "TXT", txt_records), txt_records, out)
         ELSE Raised(res, out)
    ELSE OnFailure(res, out)

reverse_dns(z, addr, res) ==
    LET out == reverse_query(z, addr) IN
    IF out.ok
    THEN Returned(res, [i \in 1..Len(out.answers) |-> rstrip(out.answers[i].target, ".")], out)
    ELSE OnFailure(res, out)

Kinds == {"A", "MX", "NS", "TXT"}

MethodOf(kind) ==
    CASE kind = "A" -> "resolve_a"
      [] kind = "MX" -> "resolve_mx"
      [] kind = "NS" -> "resolve_ns"
      [] kind = "TXT" -> "resolve_txt"

Lookup(kind, z, dom, res) ==
    CASE kind = "A" -> resolve_a(z, dom, res)
      [] kind = "MX" -> resolve_mx(z, dom, res)
      [] kind = "NS" -> resolve_ns(z, dom, res)
      [] kind = "TXT" -> resolve_txt(z, dom, res)

\* The candidate labels of enumerate_subdomains, in order.
common_subdomains ==
    <<"www", "mail", "webmail", "smtp", "pop", "imap",
      "ftp", "api", "admin", "blog", "dev", "test",
      "preprod", "staging", "prod", "production",
      "extranet", "intranet", "intra", "vpn",
      "remote", "portal", "crm", "erp",
      "mobile", "app", "cdn", "static",
      "shop", "store", "payment", "secure">>

\* f"{sub}.{self.domain}"
SubdomainNameNoDot(sub, dom) == sub \o dom
SubdomainName(sub, dom) == sub \o "." \o dom

\* range_size=5, as scan passes it
ScanRangeSize == 5

\* ---------------------------------------------------------------- state

VARIABLES
    zone,              \* the resolver backend: the outcome of every query
    changes,           \* times the backend has changed
    domain,            \* self.domain
    results,           \* self.results, the Result Model
    pc,                \* where the running call is
    caller,            \* "scan", or "direct" for a method called on its own
    calls,             \* top-level calls made so far
    ipIdx,             \* scan: position of `for ip in self.results['A']`
    ip,                \* scan_ip_neighbors: its argument ip
    range_size,        \* scan_ip_neighbors: its argument range_size
    offset,            \* scan_ip_neighbors: the loop variable
    neighbors,         \* scan_ip_neighbors: the local dict
    probed,            \* addresses this sweep has passed to reverse_dns
    subIdx,            \* enumerate_subdomains: position in common_subdomains
    found_subdomains,  \* enumerate_subdomains: the local dict
    instance,          \* DNSMapper instances constructed so far
    scans,             \* scans that have completed
    ret,               \* the last lookup or call that returned: the list a
                       \* lookup returned (addresses in ips, text in names;
                       \* a sweep's dict is in neighbors or found_subdomains)
                       \* and the outcome of its resolver query
    raised,            \* an exception left the running call
    queries,           \* the resolver queries the running call has issued
    first              \* the Result Model when the first scan completed

vars == <<zone, changes, domain, results, pc, caller, calls, ipIdx, ip,
          range_size, offset, neighbors, probed, subIdx, found_subdomains,
          instance, scans, ret, raised, queries, first>>

sweepVars == <<ipIdx, ip, range_size, offset, neighbors, probed>>
subVars == <<subIdx, found_subdomains>>
world == <<zone, changes, domain, scans>>

\* self.resolver.resolve(qname, rdtype) as an issued query; the name of a
\* PTR query is the reverse name of addr
Query(rdtype, qname) == [rdtype |-> rdtype, qname |-> qname, addr |-> <<>>]
PtrQuery(addr) == [rdtype |-> "PTR", qname |-> "in-addr.arpa", addr |-> addr]

NoRet == [op |-> "none", arg |-> <<>>, ips |-> <<>>, names |-> <<>>, outcome |-> "none"]

\* What lookup op, called with arg, hands back to its caller.
LookupRet(op, arg, e) ==
    [op |-> op, arg |-> arg,
     ips |-> IF op = "resolve_a" THEN e.ret ELSE <<>>,
     names |-> IF op = "resolve_a" THEN <<>> ELSE e.ret,
     outcome |-> e.outcome]

\* The list the last lookup returned.
RetVal == IF ret.op = "resolve_a" THEN ret.ips ELSE ret.names

\* A caller may start a call when nothing is running.
Ready == pc \in {"idle", "complete"}

\* The locals of a call that has returned are gone when the next one starts.
ClearLocals ==
    /\ ipIdx' = 0
    /\ ip' = <<>>
    /\ range_size' = 0
    /\ offset' = 0
    /\ neighbors' = EmptyMap
    /\ probed' = {}
    /\ subIdx' = 0
    /\ found_subdomains' = EmptyMap

\* DNSMapper(domain): self.results = {}
Init ==
    /\ zone \in Zones
    /\ changes = 0
    /\ domain = Apex
    /\ results = EmptyMap
    /\ pc = "idle"
    /\ caller = "none"
    /\ calls = 0
    /\ ipIdx = 0
    /\ ip = <<>>
    /\ range_size = 0
    /\ offset = 0
    /\ neighbors = EmptyMap
    /\ probed = {}
    /\ subIdx = 0
    /\ found_subdomains = EmptyMap
    /\ instance = 1
    /\ scans = 0
    /\ ret = NoRet
    /\ raised = FALSE
    /\ queries = <<>>
    /\ first = [set |-> FALSE, val |-> EmptyMap]

\* A fresh DNSMapper for the same target.
NewInstance ==
    /\ pc \in {"idle", "complete", "aborted"}
    /\ results # EmptyMap \/ pc # "idle"
    /\ calls < MaxCalls
    /\ results' = EmptyMap
    /\ pc' = "idle"
    /\ caller' = "none"
    /\ instance' = instance + 1
    /\ ret' = NoRet
    /\ raised' = FALSE
    /\ queries' = <<>>
    /\ ClearLocals
    /\ UNCHANGED <<world, calls, first>>

\* The DNS data changes between two calls (a change before the first call is
\* another initial backend, one after the last call is seen by nobody).  The
\* position "complete" is the moment scan() returned, so the change leaves it.
ZoneChange ==
    /\ Ready
    /\ calls > 0
    /\ calls < MaxCalls
    /\ changes < MaxZoneChanges
    /\ changes < calls
    /\ zone' \in LaterZones \ {zone}
    /\ changes' = changes + 1
    /\ pc' = "idle"
    /\ UNCHANGED <<domain, scans, results, caller, calls, sweepVars,
                   subVars, instance, ret, raised, queries, first>>

\* ------------------------------------------------- direct method calls

\* resolve_a(), resolve_mx(), resolve_ns() or resolve_txt() called on its own
CallResolve(kind) ==
    /\ Ready
    /\ calls < MaxCalls
    /\ LET e == Lookup(kind, zone, domain, results) IN
        /\ results' = e.results
        /\ ret' = LookupRet(MethodOf(kind), <<>>, e)
        /\ raised' = e.raised
    /\ queries' = <<Query(kind, domain)>>
    /\ pc' = "idle"
    /\ caller' = "direct"
    /\ calls' = calls + 1
    /\ ClearLocals
    /\ UNCHANGED <<world, instance, first>>

\* reverse_dns(addr) called on its own
CallReverseDns(addr) ==
    /\ Ready
    /\ calls < MaxCalls
    /\ LET e == reverse_dns(zone, addr, results) IN
        /\ results' = e.results
        /\ ret' = LookupRet("reverse_dns", <<addr>>, e)
        /\ raised' = e.raised
    /\ queries' = IF IsDottedQuad(addr) THEN <<PtrQuery(addr)>> ELSE <<>>
    /\ pc' = "idle"
    /\ caller' = "direct"
    /\ calls' = calls + 1
    /\ ClearLocals
    /\ UNCHANGED <<world, instance, first>>

\* ----------------------------------------------------- scan_ip_neighbors

\* if offset == 0: continue
SkipNone(off) == FALSE
SkipOffset(off) == off = 0

\* except (ipaddress.AddressValueError, ValueError): continue
LeaveLoop(next) == "sweep_return"
AfterAddressError(next) == next

\* if reverse: neighbors[neighbor_ip] = reverse
KeepAll(reverse) == TRUE
Keep(reverse) == reverse # <<>>

\* Where control goes when an exception leaves the running call.
Propagate == IF caller = "scan" THEN "aborted" ELSE "idle"

\* neighbors = {}; ip_obj = ipaddress.IPv4Address(ip): text that is no
\* address raises AddressValueError, which the outer except turns into
\* `return neighbors`
EnterSweep(b, r) ==
    /\ ip' = b
    /\ range_size' = r
    /\ neighbors' = EmptyMap
    /\ probed' = {}
    /\ offset' = -r
    /\ pc' = IF IsDottedQuad(b) THEN "sweep" ELSE "sweep_return"

\* scan_ip_neighbors(b, r) called on its own
CallScanIpNeighbors(b, r) ==
    /\ Ready
    /\ calls < MaxCalls
    /\ EnterSweep(b, r)
    /\ caller' = "direct"
    /\ calls' = calls + 1
    /\ ipIdx' = 0
    /\ subIdx' = 0
    /\ found_subdomains' = EmptyMap
    /\ ret' = NoRet
    /\ raised' = FALSE
    /\ queries' = <<>>
    /\ UNCHANGED <<world, results, instance, first>>

\* One iteration of `for offset in range(-range_size, range_size + 1)`
SweepStep ==
    /\ pc = "sweep"
    /\ LET next == IF offset + 1 > range_size THEN "sweep_return" ELSE "sweep"
           n == Plus(ToInt(ip), offset)
           neighbor_ip == ToText(n)
           e == reverse_dns(zone, neighbor_ip, results)
       IN
        /\ offset' = offset + 1
        /\ \/ /\ SkipOffset(offset)
              /\ pc' = next
              /\ UNCHANGED <<results, neighbors, probed, ret, raised, queries>>
           \/ /\ ~SkipOffset(offset)
              /\ ~InRange(n)
              /\ pc' = AfterAddressError(next)
              /\ UNCHANGED <<results, neighbors, probed, ret, raised, queries>>
           \/ /\ ~SkipOffset(offset)
              /\ InRange(n)
              /\ results' = e.results
              /\ probed' = probed \cup {neighbor_ip}
              /\ queries' = Append(queries, PtrQuery(neighbor_ip))
              /\ ret' = LookupRet("reverse_dns", <<neighbor_ip>>, e)
              /\ raised' = e.raised
              /\ neighbors' = IF ~e.raised /\ Keep(e.ret)
                              THEN Put(neighbors, neighbor_ip, e.ret)
                              ELSE neighbors
              /\ pc' = IF e.raised THEN Propagate ELSE next
    /\ UNCHANGED <<world, caller, calls, ipIdx, ip, range_size,
                   subVars, instance, first>>

\* self.results['neighbors'][ip] = neighbors
StoreNeighborsIfAny(res, base, found) ==
    IF found = EmptyMap THEN res
    ELSE Put(res, "neighbors", Put(res["neighbors"], base, found))
StoreNeighbors(res, base, found) ==
    Put(res, "neighbors", Put(res["neighbors"], base, found))

\* return neighbors; in scan: self.results['neighbors'][ip] = neighbors
SweepReturn ==
    /\ pc = "sweep_return"
    /\ \/ /\ caller = "scan"
          /\ results' = StoreNeighbors(results, ip, neighbors)
          /\ ipIdx' = ipIdx + 1
          /\ pc' = "neighbors_loop"
          /\ UNCHANGED ret
       \/ /\ caller = "direct"
          /\ ret' = [NoRet EXCEPT !.op = "scan_ip_neighbors"]
          /\ pc' = "idle"
          /\ UNCHANGED <<results, ipIdx>>
    /\ UNCHANGED <<world, caller, calls, ip, range_size, offset, neighbors,
                   probed, subVars, instance, raised, queries, first>>

\* -------------------------------------------------- enumerate_subdomains

\* found_subdomains = {}
EnterEnumerate ==
    /\ found_subdomains' = EmptyMap
    /\ subIdx' = 1
    /\ pc' = "sub_loop"

\* enumerate_subdomains() called on its own
CallEnumerateSubdomains ==
    /\ Ready
    /\ calls < MaxCalls
    /\ EnterEnumerate
    /\ caller' = "direct"
    /\ calls' = calls + 1
    /\ ipIdx' = 0
    /\ ip' = <<>>
    /\ range_size' = 0
    /\ offset' = 0
    /\ neighbors' = EmptyMap
    /\ probed' = {}
    /\ ret' = NoRet
    /\ raised' = FALSE
    /\ queries' = <<>>
    /\ UNCHANGED <<world, results, instance, first>>

\* answers = self.resolver.resolve(subdomain, 'A');
\* ips = [str(rdata) for rdata in answers]: the resolver is asked directly,
\* not through resolve_a, and self.results is not written
candidate_lookup_ViaResolveA(z, subdomain, res) == resolve_a(z, subdomain, res)
candidate_lookup(z, subdomain, res) ==
    LET out == resolver_resolve(z, subdomain, "A") IN
    IF out.ok
    THEN Returned(res, AddressList(out.answers), out)
    ELSE OnFailure(res, out)

\* One iteration of `for sub in common_subdomains`
SubStep ==
    /\ pc = "sub_loop"
    /\ LET subdomain == SubdomainName(common_subdomains[subIdx], domain)
           out == resolver_resolve(zone, subdomain, "A")
           e == candidate_lookup(zone, subdomain, results)
           next == IF subIdx = Len(common_subdomains) THEN "sub_return" ELSE "sub_loop"
       IN
        /\ subIdx' = subIdx + 1
        /\ results' = e.results
        /\ queries' = Append(queries, Query("A", subdomain))
        /\ \/ /\ out.ok
              /\ found_subdomains' = Put(found_subdomains, subdomain, e.ret)
              /\ pc' = next
              /\ UNCHANGED raised
           \/ /\ ~out.ok
              /\ Caught(out.exc)
              /\ pc' = next
              /\ UNCHANGED <<found_subdomains, raised>>
           \/ /\ ~out.ok
              /\ ~Caught(out.exc)
              /\ raised' = TRUE
              /\ pc' = Propagate
              /\ UNCHANGED found_subdomains
    /\ UNCHANGED <<world, caller, calls, sweepVars, instance, ret, first>>

\* return found_subdomains; in scan: self.results['subdomains'] = subdomains
SubReturn ==
    /\ pc = "sub_return"
    /\ \/ /\ caller = "scan"
          /\ results' = Put(results, "subdomains", found_subdomains)
          /\ pc' = "complete"
          /\ scans' = scans + 1
          /\ first' = IF first.set THEN first ELSE [set |-> TRUE, val |-> results']
          /\ UNCHANGED ret
       \/ /\ caller = "direct"
          /\ ret' = [NoRet EXCEPT !.op = "enumerate_subdomains"]
          /\ pc' = "idle"
          /\ UNCHANGED <<results, scans, first>>
    /\ UNCHANGED <<zone, changes, domain, caller, calls, sweepVars, subVars,
                   instance, raised, queries>>

\* ------------------------------------------------------------------ scan

ScanStart ==
    /\ Ready
    /\ calls < MaxCalls
    /\ pc' = "resolve_a"
    /\ caller' = "scan"
    /\ calls' = calls + 1
    /\ ret' = NoRet
    /\ raised' = FALSE
    /\ queries' = <<>>
    /\ ClearLocals
    /\ UNCHANGED <<world, results, instance, first>>

\* self.resolve_a() ... self.resolve_txt(): the returned list is dropped
ScanResolve(kind, at, next) ==
    /\ pc = at
    /\ LET e == Lookup(kind, zone, domain, results) IN
        /\ results' = e.results
        /\ ret' = LookupRet(MethodOf(kind), <<>>, e)
        /\ raised' = e.raised
        /\ pc' = IF e.raised THEN "aborted" ELSE next
    /\ queries' = Append(queries, Query(kind, domain))
    /\ UNCHANGED <<world, caller, calls, sweepVars, subVars, instance, first>>

ScanResolveA == ScanResolve("A", "resolve_a", "resolve_mx")
ScanResolveMX_Retry ==
    ScanResolve("MX", "resolve_mx", IF zone.MX.ok THEN "resolve_ns" ELSE "resolve_mx")
ScanResolveMX == ScanResolve("MX", "resolve_mx", "resolve_ns")
ScanResolveNS_SkipsTXT == ScanResolve("NS", "resolve_ns", "neighbors_check")
ScanResolveNS == ScanResolve("NS", "resolve_ns", "resolve_txt")
ScanResolveTXT == ScanResolve("TXT", "resolve_txt", "neighbors_check")

\* if 'A' in self.results and self.results['A']: self.results['neighbors'] = {}
ScanNeighborsCheck ==
    /\ pc = "neighbors_check"
    /\ \/ /\ Has(results, "A")
          /\ results["A"] # <<>>
          /\ results' = Put(results, "neighbors", EmptyMap)
          /\ ipIdx' = 1
          /\ pc' = "neighbors_loop"
       \/ /\ ~(Has(results, "A") /\ results["A"] # <<>>)
          /\ pc' = "enumerate"
          /\ UNCHANGED <<results, ipIdx>>
    /\ UNCHANGED <<world, caller, calls, ip, range_size, offset, neighbors,
                   probed, subVars, instance, ret, raised, queries, first>>

\* for ip in self.results['A']: neighbors = self.scan_ip_neighbors(ip, range_size=5)
ScanNeighborsLoop ==
    /\ pc = "neighbors_loop"
    /\ \/ /\ ipIdx <= Len(results["A"])
          /\ EnterSweep(results["A"][ipIdx], ScanRangeSize)
       \/ /\ ipIdx > Len(results["A"])
          /\ pc' = "enumerate"
          /\ UNCHANGED <<ip, range_size, offset, neighbors, probed>>
    /\ UNCHANGED <<world, results, caller, calls, ipIdx, subVars, instance,
                   ret, raised, queries, first>>

\* subdomains = self.enumerate_subdomains()
ScanEnumerate ==
    /\ pc = "enumerate"
    /\ EnterEnumerate
    /\ UNCHANGED <<world, results, caller, calls, sweepVars, instance, ret,
                   raised, queries, first>>

\* ---------------------------------------------------------- generate_pdf

\* for ip in self.results['A']: the address of the i-th row
PdfAddressFirst(i) == results["A"][1]
PdfAddress(i) == results["A"][i]

\* generate_pdf(filename), as main calls it after scan or called on its own.
\* Of the report only the reverse lookups of the address table are
\* modelled: nothing else in it queries the resolver or writes the Result
\* Model.
CallGeneratePdf ==
    /\ Ready
    /\ calls < MaxCalls
    /\ pc' = "pdf_loop"
    /\ caller' = "pdf"
    /\ calls' = calls + 1
    /\ ipIdx' = 1
    /\ ip' = <<>>
    /\ range_size' = 0
    /\ offset' = 0
    /\ neighbors' = EmptyMap
    /\ probed' = {}
    /\ subIdx' = 0
    /\ found_subdomains' = EmptyMap
    /\ ret' = NoRet
    /\ raised' = FALSE
    /\ queries' = <<>>
    /\ UNCHANGED <<world, results, instance, first>>

\* if 'A' in self.results and self.results['A']:
\*     for ip in self.results['A']: reverse = self.reverse_dns(ip)
PdfStep ==
    /\ pc = "pdf_loop"
    /\ \/ /\ Has(results, "A")
          /\ ipIdx <= Len(results["A"])
          /\ LET e == reverse_dns(zone, PdfAddress(ipIdx), results) IN
              /\ results' = e.results
              /\ ret' = LookupRet("reverse_dns", <<PdfAddress(ipIdx)>>, e)
              /\ raised' = e.raised
              /\ pc' = IF e.raised THEN Propagate ELSE "pdf_loop"
          /\ queries' = Append(queries, PtrQuery(PdfAddress(ipIdx)))
          /\ ipIdx' = ipIdx + 1
       \/ /\ ~(Has(results, "A") /\ ipIdx <= Len(results["A"]))
          /\ ret' = [NoRet EXCEPT !.op = "generate_pdf"]
          /\ pc' = "idle"
          /\ UNCHANGED <<results, raised, queries, ipIdx>>
    /\ UNCHANGED <<world, caller, calls, ip, range_size, offset,
                   neighbors, probed, subVars, instance, first>>

\* ------------------------------------------------------- specification

\* Addresses and radii of the direct calls.
CallAddresses == {Mid, Low, High, Carry, NotAnAddress}

ScanStep ==
    \/ ScanResolveA
    \/ ScanResolveMX
    \/ ScanResolveNS
    \/ ScanResolveTXT
    \/ ScanNeighborsCheck
    \/ ScanNeighborsLoop
    \/ ScanEnumerate
    \/ SweepStep
    \/ SweepReturn
    \/ SubStep
    \/ SubReturn

Next ==
    \/ NewInstance
    \/ ZoneChange
    \/ \E kind \in Kinds : CallResolve(kind)
    \/ \E addr \in CallAddresses : CallReverseDns(addr)
    \/ \E b \in CallAddresses, r \in 0..MaxRadius : CallScanIpNeighbors(b, r)
    \/ CallEnumerateSubdomains
    \/ ScanStart
    \/ ScanStep
    \/ CallGeneratePdf
    \/ PdfStep

Spec == Init /\ [][Next]_vars

\* Every step of a running call moves pc, offset or subIdx.
position == <<pc, offset, subIdx>>

\* The code runs straight through: a started call takes its next step. Each
\* query is bounded by the resolver's timeout.
FairSpec == Spec /\ WF_position(ScanStep)

\* --------------------------------------------------------------- claims

LookupOps == {"resolve_a", "resolve_mx", "resolve_ns", "resolve_txt", "reverse_dns"}

\* C1: when the resolver query of a record lookup or of reverse_dns fails
\* with any of the four failure classes, the lookup returns the empty list
\* and no exception leaves it.
C1_FailureGivesEmptyList ==
    (ret.op \in LookupOps /\ ret.outcome \in FailureClasses)
        => (RetVal = <<>> /\ ~raised)

\* A lookup inside a scan has timed out, returned [] and the scan goes on.
C1_Witness ==
    /\ caller = "scan"
    /\ ret.op = "resolve_mx"
    /\ ret.outcome = "Timeout"
    /\ RetVal = <<>>
    /\ ~raised
    /\ pc = "resolve_ns"

\* C2: a scan that has started eventually reaches the complete state,
\* whatever the outcomes of its queries.
C2_ScanCompletes == (caller = "scan" /\ pc = "resolve_a") ~> (pc = "complete")

\* C3 as stated: at completion all four Record Sets are present, an empty
\* sequence standing for a lookup that failed.
C3_AllFourPresent ==
    pc = "complete" => \A k \in Kinds : Has(results, k)

\* C3 amended: at completion a kind whose lookup succeeded has its Record
\* Set, the non-empty sequence with one value per answer; a kind whose lookup
\* failed has no empty sequence stored: its entry is absent, or (only after
\* the backend changed) the Record Set an earlier lookup left.
C3_RecordSetsAtCompletion ==
    pc = "complete" =>
        \A k \in Kinds :
            IF zone[k].ok
            THEN /\ Has(results, k)
                 /\ Len(results[k]) = Len(zone[k].answers)
                 /\ results[k] # <<>>
            ELSE IF changes = 0
                 THEN ~Has(results, k)
                 ELSE Has(results, k) => results[k] # <<>>

\* A scan has completed with the address lookup failed: no 'A' entry, the
\* other three present.
C3_Witness ==
    /\ pc = "complete"
    /\ changes = 0
    /\ ~zone["A"].ok
    /\ ~Has(results, "A")
    /\ Has(results, "MX") /\ Has(results, "NS") /\ Has(results, "TXT")

\* C4 as stated: every Neighbor Map entry, the one under a base address
\* included, and every Subdomain Map entry is non-empty.
C4_NoEmptyEntry ==
    /\ Has(results, "neighbors") =>
           \A b \in DOMAIN results["neighbors"] :
               /\ DOMAIN results["neighbors"][b] # {}
               /\ \A a \in DOMAIN results["neighbors"][b] :
                      results["neighbors"][b][a] # <<>>
    /\ Has(results, "subdomains") =>
           \A n \in DOMAIN results["subdomains"] : results["subdomains"][n] # <<>>

\* C4 amended: every neighbor-address entry inside the entry of a base
\* address, and every Subdomain Map entry, is non-empty; the entry under a
\* base address itself may be an empty map.
C4_NoEmptyLeafEntry ==
    /\ Has(results, "neighbors") =>
           \A b \in DOMAIN results["neighbors"] :
               \A a \in DOMAIN results["neighbors"][b] :
                   results["neighbors"][b][a] # <<>>
    /\ Has(results, "subdomains") =>
           \A n \in DOMAIN results["subdomains"] : results["subdomains"][n] # <<>>

\* A completed scan in which most neighbor and candidate lookups failed and
\* a few resolved: only the resolving ones have entries.
C4_Witness ==
    /\ pc = "complete"
    /\ Has(results, "neighbors")
    /\ DOMAIN results["neighbors"] = {Mid}
    /\ DOMAIN results["neighbors"][Mid] = {<<198, 51, 100, 8>>, <<198, 51, 100, 15>>}
    /\ DOMAIN results["subdomains"] = {"www.example.com"}

\* The halves of an address, and a[...] - b[...] as a number when the two
\* addresses are within 2^16 of each other (else a number beyond any radius).
Hi(a) == a[1] * 256 + a[2]
Lo(a) == a[3] * 256 + a[4]
Distance(a, b) ==
    IF Hi(a) - Hi(b) > 1 THEN 2 * 65536
    ELSE IF Hi(a) - Hi(b) < -1 THEN -2 * 65536
    ELSE (Hi(a) - Hi(b)) * 65536 + Lo(a) - Lo(b)

\* Addresses below and above b, within r of it, that exist.
Below(b, r) == IF Hi(b) = 0 /\ Lo(b) < r THEN Lo(b) ELSE r
Above(b, r) == IF Hi(b) = 65535 /\ 65535 - Lo(b) < r THEN 65535 - Lo(b) ELSE r

\* C5: a sweep around base address b with radius r has called reverse_dns
\* for exactly the existing addresses b+k, k in [-r, r], k # 0, and its
\* output holds an address iff it was probed and its reverse lookup gave a
\* non-empty list, mapped to that list.
C5_SweepProbesAndOutput ==
    (pc = "sweep_return" /\ IsDottedQuad(ip)) =>
        /\ \A a \in probed :
               /\ IsDottedQuad(a)
               /\ Distance(a, ip) \in (-range_size..range_size) \ {0}
        /\ Cardinality(probed) = Below(ip, range_size) + Above(ip, range_size)
        /\ DOMAIN neighbors = {a \in probed : reverse_dns(zone, a, results).ret # <<>>}
        /\ \A a \in DOMAIN neighbors : neighbors[a] = reverse_dns(zone, a, results).ret

\* The sweep of the spec's example: base 198.51.100.10, radius 2, of which
\* only 198.51.100.8 has a PTR record.
C5_Witness ==
    /\ pc = "sweep_return"
    /\ ip = Mid
    /\ range_size = 2
    /\ probed = {<<198, 51, 100, 8>>, <<198, 51, 100, 9>>,
                 <<198, 51, 100, 11>>, <<198, 51, 100, 12>>}
    /\ DOMAIN neighbors = {<<198, 51, 100, 8>>}

\* The base address is within r of an end of the address space.
NearEdge(b, r) ==
    \/ Hi(b) = 0 /\ Lo(b) < r
    \/ Hi(b) = 65535 /\ Lo(b) > 65535 - r

\* C6: a sweep whose base is within r of an end of the address space runs
\* its loop to the end without raising, probes no address outside
\* 0..2^32-1 and probes every existing neighbor within r, on both sides.
C6_SweepAtEdge ==
    (pc = "sweep_return" /\ IsDottedQuad(ip) /\ NearEdge(ip, range_size)) =>
        /\ ~raised
        /\ offset = range_size + 1
        /\ \A a \in probed : IsDottedQuad(a)
        /\ \A k \in (-range_size..range_size) \ {0} :
               LET v == Lo(ip) + k IN
               v \in 0..65535 => <<ip[1], ip[2], v \div 256, v % 256>> \in probed

\* The sweep of radius 5 around 0.0.0.1 has returned: 0.0.0.0 and
\* 0.0.0.2 .. 0.0.0.6 were probed.
C6_Witness ==
    /\ pc = "sweep_return"
    /\ ip = Low
    /\ range_size = 5
    /\ probed = {<<0, 0, 0, 0>>, <<0, 0, 0, 2>>, <<0, 0, 0, 3>>, <<0, 0, 0, 4>>,
                 <<0, 0, 0, 5>>, <<0, 0, 0, 6>>}
    /\ DOMAIN neighbors = {<<0, 0, 0, 0>>, <<0, 0, 0, 6>>}

\* C7: enumerate_subdomains returns the map whose keys are the names
\* label.Target of the dictionary labels whose address lookup succeeds, each
\* mapped to the addresses of its answer, and nothing else.
C7_SubdomainMap ==
    pc = "sub_return" =>
        LET names == {common_subdomains[i] \o "." \o domain :
                          i \in 1..Len(common_subdomains)}
            hits == {n \in names : n \in DOMAIN zone.sub}
        IN /\ DOMAIN found_subdomains = hits
           /\ \A n \in hits :
                  /\ Len(found_subdomains[n]) = Len(zone.sub[n])
                  /\ \A j \in 1..Len(zone.sub[n]) :
                         found_subdomains[n][j] = zone.sub[n][j].address

\* A sweep has returned with two of the 32 candidates resolving.
C7_Witness ==
    /\ pc = "sub_return"
    /\ DOMAIN found_subdomains = {"api.example.com", "secure.example.com"}
    /\ found_subdomains["api.example.com"] = <<Web, Mid>>

\* C8 as stated: after a record lookup, whatever the outcome, the Record Set
\* stored under the kind's key equals the returned sequence.
C8_StoredEqualsReturned ==
    \A k \in Kinds :
        (ret.op = MethodOf(k) /\ ~raised) => (Has(results, k) /\ results[k] = RetVal)

\* The step is a call of the lookup of kind k, by scan or on its own.
LookupStep(k) ==
    \/ pc = MethodOf(k)
    \/ Ready /\ calls' = calls + 1 /\ ret'.op = MethodOf(k)

\* C8 amended: a record lookup whose query succeeded stores the returned
\* sequence under its kind's key; one whose query failed returns the empty
\* list and leaves the Result Model as it was.
C8_StoredEqualsReturnedOnSuccess ==
    [][\A k \in Kinds :
          LookupStep(k) =>
              IF ret'.outcome = "ok" /\ ~raised'
              THEN Has(results', k) /\ results'[k] = RetVal'
              ELSE results' = results /\ (~raised' => RetVal' = <<>>)]_vars

\* An address lookup has failed on an instance whose earlier address lookup
\* succeeded: [] was returned, the earlier Record Set is still stored.
C8_Witness ==
    /\ ret.op = "resolve_a"
    /\ ret.outcome \in FailureClasses
    /\ RetVal = <<>>
    /\ Has(results, "A")
    /\ results["A"] # <<>>

\* C9: against a backend that never changes, every completed scan, on the
\* same instance or on a fresh one, leaves the Result Model of the first.
C9_RepeatedScanSameModel ==
    (pc = "complete" /\ changes = 0 /\ first.set) => results = first.val

\* The second scan on one instance has completed, with neighbors and
\* subdomains found.
C9_Witness ==
    /\ pc = "complete"
    /\ changes = 0
    /\ scans = 2
    /\ instance = 1
    /\ results = first.val
    /\ DOMAIN results["subdomains"] # {}
    /\ Has(results, "neighbors")
    /\ Mid \in DOMAIN results["neighbors"]
    /\ DOMAIN results["neighbors"][Mid] # {}

\* What a sweep of radius 5 around b finds in the backend.
SweepOutput(b) ==
    [a \in {x \in DOMAIN zone.ptr : Distance(x, b) \in (-5..5) \ {0}} |->
        reverse_dns(zone, a, results).ret]

\* C10: at completion the Neighbor Map has one key per address of the
\* address Record Set, holding that address's sweep output (an empty map when
\* no neighbor resolved); on the end-to-end backend the four Record Sets have
\* length 1, the Subdomain Map is empty and the Neighbor Map maps the single
\* address to an empty map.
C10_NeighborMapAtCompletion ==
    pc = "complete" =>
        /\ Has(results, "neighbors") <=> Has(results, "A")
        /\ Has(results, "A") =>
               /\ DOMAIN results["neighbors"] =
                      {results["A"][i] : i \in 1..Len(results["A"])}
               /\ Cardinality(DOMAIN results["neighbors"]) = Len(results["A"])
               /\ \A b \in DOMAIN results["neighbors"] :
                      results["neighbors"][b] = SweepOutput(b)
        /\ (zone = RefZone /\ changes = 0) =>
               /\ \A k \in Kinds : Len(results[k]) = 1
               /\ DOMAIN results["subdomains"] = {}
               /\ DOMAIN results["neighbors"] = {Mid}
               /\ DOMAIN results["neighbors"][Mid] = {}

\* The end-to-end scan has completed.
C10_Witness ==
    /\ pc = "complete"
    /\ zone = RefZone
    /\ changes = 0
    /\ results["A"] = <<Mid>>
    /\ DOMAIN results["neighbors"] = {Mid}
    /\ DOMAIN results["neighbors"][Mid] = {}
    /\ DOMAIN results["subdomains"] = {}

\* The raw name with one trailing dot removed, if it ends with a dot.
StripOneDot(s) ==
    IF Len(s) > 0 /\ s[Len(s)] = "." THEN SubSeq(s, 1, Len(s) - 1) ELSE s

\* The step is a reverse lookup, by a sweep or on its own.
ReverseStep ==
    \/ pc = "sweep" /\ probed' # probed
    \/ Ready /\ calls' = calls + 1 /\ ret'.op = "reverse_dns"

\* C11: every name the MX, NS and PTR lookups return is the raw name of the
\* answer with exactly one trailing dot removed if it ends with a dot, and
\* the raw name itself if it does not.
C11_OneTrailingDotRemoved ==
    [][/\ (LookupStep("MX") /\ ret'.outcome = "ok") =>
              ret'.names = [i \in 1..Len(zone.MX.answers) |->
                               StripOneDot(zone.MX.answers[i].exchange)]
       /\ (LookupStep("NS") /\ ret'.outcome = "ok") =>
              ret'.names = [i \in 1..Len(zone.NS.answers) |->
                               StripOneDot(zone.NS.answers[i].target)]
       /\ (ReverseStep /\ ret'.outcome = "ok") =>
              ret'.names = [i \in 1..Len(zone.ptr[ret'.arg[1]]) |->
                               StripOneDot(zone.ptr[ret'.arg[1]][i].target)]
      ]_vars

\* Characters of the segments before segment j of a record.
RECURSIVE SegmentStart(_, _)
SegmentStart(strings, j) ==
    IF j = 1 THEN 0 ELSE SegmentStart(strings, j - 1) + Len(strings[j - 1].data)

\* text holds the segments of the record one after the other, and no more.
IsConcatenation(text, strings) ==
    /\ Len(text) = SegmentStart(strings, Len(strings) + 1)
    /\ \A j \in 1..Len(strings) :
           \A c \in 1..Len(strings[j].data) :
               text[SegmentStart(strings, j) + c] = strings[j].data[c]

\* C12: a resolve_txt that returns the answer's records returns one string
\* per TXT record, in answer order, each the concatenation in order of that
\* record's segments.
C12_OneStringPerRecord ==
    [][(LookupStep("TXT") /\ ret'.outcome = "ok" /\ ~raised') =>
          /\ Len(ret'.names) = Len(zone.TXT.answers)
          /\ \A i \in 1..Len(zone.TXT.answers) :
                 IsConcatenation(ret'.names[i], zone.TXT.answers[i].strings)
      ]_vars

\* resolve_txt has returned two strings for an answer of two records, the
\* first of three segments.
C12_Witness ==
    /\ ret.op = "resolve_txt"
    /\ ret.outcome = "ok"
    /\ ~raised
    /\ ret.names = << <<"v", "=", "1", " ", "i", ":", "x", " ", "~", "a">>,
                      <<"k", "=", "1">> >>

\* The phase of the spec's state machine a position of scan belongs to.
PhaseOf(p) ==
    CASE p \in {"resolve_a", "resolve_mx", "resolve_ns", "resolve_txt"} -> 1
      [] p \in {"neighbors_check", "neighbors_loop", "sweep", "sweep_return"} -> 2
      [] p \in {"enumerate", "sub_loop", "sub_return"} -> 3
      [] p = "complete" -> 4
      [] p = "aborted" -> 5
      [] OTHER -> 0

\* The phase a query belongs to: a record query on the target, a reverse
\* query, an address query on a candidate subdomain.
QueryPhase(q) ==
    IF q.rdtype = "PTR" THEN 2
    ELSE IF q.qname = domain THEN 1
    ELSE 3

\* A step of a scan that is running.
InScan == caller = "scan" /\ pc \notin {"idle", "complete", "aborted"}

\* C13: a running scan never moves to an earlier phase; every query is
\* issued in its own phase and after every query of the earlier phases; the
\* four record queries on the target precede the first reverse query; and the
\* scan completes from the enumerating phase only.
C13_PhasesInOrder ==
    [][InScan =>
          /\ PhaseOf(pc') >= PhaseOf(pc)
          /\ PhaseOf(pc') = 4 => PhaseOf(pc) = 3
          /\ queries' # queries =>
                 LET q == queries'[Len(queries')] IN
                 /\ queries' = Append(queries, q)
                 /\ QueryPhase(q) = PhaseOf(pc)
                 /\ Len(queries) > 0 =>
                        QueryPhase(q) >= QueryPhase(queries[Len(queries)])
                 /\ QueryPhase(q) >= 2 =>
                        /\ Len(queries) >= 4
                        /\ {queries[i] : i \in 1..4} = {Query(k, domain) : k \in Kinds}
      ]_vars

\* A scan has completed after its four record queries, the ten reverse
\* queries of one sweep and the 32 candidate queries, in that order.
C13_Witness ==
    /\ pc = "complete"
    /\ caller = "scan"
    /\ Len(queries) = 46
    /\ queries[4] = Query("TXT", domain)
    /\ queries[5] = PtrQuery(<<198, 51, 100, 5>>)
    /\ queries[14] = PtrQuery(<<198, 51, 100, 15>>)
    /\ queries[15] = Query("A", "www.example.com")
    /\ queries[46] = Query("A", "secure.example.com")

\* The addresses of the address Record Set.
Primaries == IF Has(results, "A") THEN {results["A"][i] : i \in 1..Len(results["A"])} ELSE {}

\* The reverse queries among the queries issued.
PtrQueries == SelectSeq(queries, LAMBDA q : q.rdtype = "PTR")

\* C14 as stated: when a scan reaches the complete state it has issued a
\* reverse lookup of each address of the address Record Set.
C14_ScanLooksUpPrimaries ==
    (pc = "complete" /\ caller = "scan") =>
        \A b \in Primaries : \E i \in 1..Len(queries) : queries[i] = PtrQuery(b)

\* Reverse queries of the sweeps of radius 5 around the addresses of a list.
RECURSIVE SweepQueryCount(_)
SweepQueryCount(addrs) ==
    IF addrs = <<>> THEN 0
    ELSE Below(Head(addrs), 5) + Above(Head(addrs), 5) + SweepQueryCount(Tail(addrs))

\* C14 amended: the reverse queries a scan issues are those of its Neighbor
\* Sweeps, one sweep per address of the address Record Set, each for a
\* neighbor of the swept address, and no further reverse lookup of a primary
\* address; the reverse lookup of each primary address is issued by
\* generate_pdf, once per address in Record Set order, which main calls after
\* the scan has completed.
C14_PrimariesLookedUpByReport ==
    /\ (pc = "complete" /\ caller = "scan") =>
           /\ \A i \in 1..Len(PtrQueries) :
                  \E b \in Primaries :
                      Distance(PtrQueries[i].addr, b) \in (-5..5) \ {0}
           /\ Len(PtrQueries) =
                  IF Has(results, "A") THEN SweepQueryCount(results["A"]) ELSE 0
    /\ ret.op = "generate_pdf" =>
           queries = [i \in 1..Cardinality(Primaries) |-> PtrQuery(results["A"][i])]

\* The report that follows a completed scan of a target with two addresses
\* has looked both up.
C14_Witness ==
    /\ ret.op = "generate_pdf"
    /\ scans = 1
    /\ Has(results, "neighbors")
    /\ queries = <<PtrQuery(Mid), PtrQuery(Low)>>

\* The queries issued for candidate subdomains, and for kind k on the target.
CandidateQueries == SelectSeq(queries, LAMBDA q : q.rdtype = "A" /\ q.qname # domain)
RecordQueries(k) == SelectSeq(queries, LAMBDA q : q.rdtype = k /\ q.qname = domain)

\* Each record query of a scan is issued once: never twice, and once when
\* the scan has gone past the record lookups.
RecordQueriesOnce ==
    caller = "scan" =>
        \A k \in Kinds :
            /\ Len(RecordQueries(k)) <= 1
            /\ PhaseOf(pc) \in 2..4 => Len(RecordQueries(k)) = 1

\* The candidate queries issued are the first candidates of the dictionary,
\* in its order, each once; all 32 when the enumeration is over.
CandidateQueriesOnce ==
    /\ Len(CandidateQueries) <= Len(common_subdomains)
    /\ CandidateQueries =
           [i \in 1..Len(CandidateQueries) |->
               Query("A", common_subdomains[i] \o "." \o domain)]
    /\ (pc = "sub_return" \/ (pc = "complete" /\ caller = "scan")) =>
           Len(CandidateQueries) = Len(common_subdomains)

\* A sweep that is over has issued one reverse query per address it probed,
\* at most 2r of them, after those of the scan's earlier sweeps.
SweepQueriesOnce ==
    pc = "sweep_return" =>
        LET n == Cardinality(probed)
            earlier == Len(PtrQueries) - n
        IN /\ n <= 2 * range_size
           /\ earlier >= 0
           /\ {PtrQueries[i].addr : i \in (earlier + 1)..Len(PtrQueries)} = probed
           /\ earlier = IF caller = "scan"
                        THEN SweepQueryCount(SubSeq(results["A"], 1, ipIdx - 1))
                        ELSE 0

\* C15: no query is retried and one query is issued at a time: a step issues
\* at most one query; in a scan each of the four record queries on the target
\* is issued exactly once; the 32 candidate queries are issued once each in
\* dictionary order; a Neighbor Sweep issues at most 2r reverse queries, one
\* per probed address.
C15_NoRetry ==
    [][/\ Len(queries') <= Len(queries) + 1
       /\ RecordQueriesOnce'
       /\ CandidateQueriesOnce'
       /\ SweepQueriesOnce'
      ]_vars

\* A scan whose MX, subdomain and reverse queries all fail has completed
\* with 46 queries: four record queries, ten reverse queries, 32 candidates.
C15_Witness ==
    /\ pc = "complete"
    /\ caller = "scan"
    /\ ~zone.MX.ok
    /\ Len(queries) = 46
    /\ Len(RecordQueries("MX")) = 1
    /\ Len(PtrQueries) = 10
    /\ Len(CandidateQueries) = 32

RecordMethods == {MethodOf(k) : k \in Kinds}

\* The step belongs to reverse_dns, scan_ip_neighbors or
\* enumerate_subdomains: the call, an iteration of its loop, or its return
\* to a caller other than scan.
FrameStep ==
    \/ pc \in {"sweep", "sub_loop", "pdf_loop"}
    \/ pc \in {"sweep_return", "sub_return"} /\ caller = "direct"
    \/ Ready /\ calls' = calls + 1 /\ caller' = "direct" /\ ret'.op \notin RecordMethods

\* The step is one of the orchestrator's own writes.
OrchestratorWrite ==
    caller = "scan" /\ pc \in {"neighbors_check", "sweep_return", "sub_return"}

\* C16: reverse_dns, scan_ip_neighbors and enumerate_subdomains leave the
\* Result Model unchanged whatever their queries return (the address lookups
\* of the Subdomain Sweep do not touch the target's address Record Set), and
\* the Result Model is written only by the record lookups, by the
\* orchestrator and by the construction of an instance.
C16_SweepsLeaveModelUnchanged ==
    [][/\ FrameStep => results' = results
       /\ results' # results =>
              \/ \E k \in Kinds : LookupStep(k)
              \/ OrchestratorWrite
              \/ instance' # instance
      ]_vars

\* enumerate_subdomains, called after resolve_a stored the target's
\* address, has returned resolving candidates; the Result Model holds the
\* target's address Record Set and nothing else.
C16_Witness ==
    /\ ret.op = "enumerate_subdomains"
    /\ caller = "direct"
    /\ DOMAIN found_subdomains = {"www.example.com"}
    /\ found_subdomains["www.example.com"] = <<Web>>
    /\ DOMAIN results = {"A"}
    /\ results["A"] = <<Mid>>

\* A scan has completed whose address lookup failed on an instance that
\* still holds the addresses of an earlier lookup: it has swept them.
StaleAddressesSwept ==
    (pc = "complete" /\ caller = "scan" /\ ~zone.A.ok /\ Has(results, "A")) =>
        /\ Has(results, "neighbors")
        /\ DOMAIN results["neighbors"] = Primaries
        /\ Len(PtrQueries) = SweepQueryCount(results["A"])
        /\ Len(PtrQueries) > 0

\* C17: a record lookup whose query fails leaves the Result Model as it
\* was, the entry of its kind absent or holding the earlier Record Set; so a
\* scan whose address lookup fails, on an instance that holds the addresses
\* of an earlier lookup, runs the Neighbor Sweeps over those addresses.
C17_FailedLookupKeepsModel ==
    [][/\ \A k \in Kinds :
              (LookupStep(k) /\ ret'.outcome \in FailureClasses) =>
                  /\ results' = results
                  /\ Has(results', k) <=> Has(results, k)
       /\ StaleAddressesSwept'
      ]_vars

\* After the backend changed, a second scan on the instance has completed
\* with its address lookup failed and the first scan's address swept.
C17_Witness ==
    /\ pc = "complete"
    /\ caller = "scan"
    /\ instance = 1
    /\ changes = 1
    /\ ~zone.A.ok
    /\ Has(results, "A")
    /\ results["A"] = <<Mid>>
    /\ Has(results, "neighbors")
    /\ DOMAIN results["neighbors"] = {Mid}
    /\ Len(PtrQueries) = 10

====
